---------------------------- MODULE Spec2Model ----------------------------
(***************************************************************************)
(* Conversion cache of the Mermaid conversion service.                     *)
(*                                                                         *)
(*   CacheHelper      src/src/utils/cacheHelper.js                         *)
(*   MermaidService   src/unnamed/part_007 (services/mermaidService.js)    *)
(*   ConvertController src/unnamed/part_006                                *)
(*                                                                         *)
(* The cache index (cacheIndex.items, cacheIndex.accessOrder), the cache   *)
(* directory and the clock are the state.  A cache state is handled as a   *)
(* record c = [items, accessOrder, files] so that the helpers of           *)
(* CacheHelper are operators from cache states to cache states, composed   *)
(* the way the methods call each other.                                    *)
(***************************************************************************)
EXTENDS Integers, Sequences, FiniteSets, TLC

VARIABLES
  items,        \* cacheIndex.items: hash -> timestamp (filePath is cacheDir/<hash>.png)
  accessOrder,  \* cacheIndex.accessOrder: sequence of hashes, LRU end first
  files,        \* temp/cache/<hash>.png: hash -> [bytes, mtime]
  now,          \* Date.now()
  phase,        \* "init": initializeCache not finished, "ready", "hung"
  clean,        \* history: no storage failure and no expiry so far
  lastOp,       \* history: the call that returned last
  fp,           \* two fingerprint requests and the keys computed for them
  calls,        \* the convertImage call of each request handler
  temp          \* temp/<cacheKey>.mmd and temp/<cacheKey>.png

cacheVars == <<items, accessOrder, files, now, phase, clean, lastOp>>
svcVars == <<calls, temp>>
vars == <<cacheVars, fp, svcVars>>

---------------------------------------------------------------------------
(* Bounds of the model *)

\* options.maxCacheSize of the instance under check
MaxCacheSize == 2
\* options.cacheTTL of the instance under check, in clock ticks
CacheTTL == 1
\* last clock value explored
MaxTime == 3
\* longest accessOrder explored (the code never bounds it)
MaxOrderLen == 4

---------------------------------------------------------------------------
(* Values *)

\* JavaScript undefined for an absent width or height
Undefined == -1
\* JavaScript NaN, as parseInt gives it for a text that is no number
NaN == -2

\* a string is the sequence of its characters
Digit(d) == <<"0", "1", "2", "3", "4", "5", "6", "7", "8", "9">>[d + 1]

RECURSIVE NumToString(_)
\* template-literal conversion of a non-negative integer
NumToString(n) == IF n < 10 THEN <<Digit(n)>>
                  ELSE NumToString(n \div 10) \o <<Digit(n % 10)>>

\* x || 'default' inside the template literal
OrDefault(x) == IF x = Undefined \/ x = NaN \/ x = 0
                THEN <<"d", "e", "f", "a", "u", "l", "t">>
                ELSE NumToString(x)

\* generateCacheKey that leaves the height out of the hash input
hashInputNoHeight(mermaidSyntax, options) ==
  mermaidSyntax \o <<"|", "w", ":">> \o OrDefault(options.width)

\* `${mermaidSyntax}|w:${width || 'default'}|h:${height || 'default'}`
hashInput(mermaidSyntax, options) ==
  mermaidSyntax \o <<"|", "w", ":">> \o OrDefault(options.width)
                \o <<"|", "h", ":">> \o OrDefault(options.height)

\* the md5 hex digest is taken as collision free: a key stands for its input
generateCacheKey(mermaidSyntax, options) == hashInput(mermaidSyntax, options)


---------------------------------------------------------------------------
(* CacheHelper: helpers on a cache state c = [items, accessOrder, files] *)

\* the Map / directory f without key k
Without(f, k) == [x \in DOMAIN f \ {k} |-> f[x]]

\* the Map / directory f with key k set to v
With(f, k, v) == [x \in DOMAIN f \cup {k} |-> IF x = k THEN v ELSE f[x]]

\* accessOrder.filter(h => h !== hash)
FilterOut(order, hash) == SelectSeq(order, LAMBDA h : h # hash)

\* now - timestamp > this.cacheTTL
Expired(timestamp, t) == t - timestamp > CacheTTL

\* fs.unlink(filePath) resolves: the file is there and the delete goes through
UnlinkResolves(c, hash, unlinkOk) == unlinkOk /\ hash \in DOMAIN c.files

\* removeOldestCacheItem: shift the LRU end, unlink its file and only then
\* drop it from items; a throw inside the try (unlink rejected, or
\* items.get(oldestHash) undefined) is logged and leaves items as it is
removeOldestCacheItem(c, unlinkOk) ==
  IF c.accessOrder = <<>> THEN c
  ELSE LET oldestHash == Head(c.accessOrder)
           shifted == [c EXCEPT !.accessOrder = Tail(c.accessOrder)]
       IN IF oldestHash \notin DOMAIN c.items THEN shifted
          ELSE IF UnlinkResolves(c, oldestHash, unlinkOk)
               THEN [shifted EXCEPT !.items = Without(c.items, oldestHash),
                                    !.files = Without(c.files, oldestHash)]
               ELSE shifted

\* isCached with the catch branch leaving the hash in accessOrder
isCachedKeepsOrder(c, hash, t, io) ==
  IF hash \notin DOMAIN c.items THEN [c |-> c, ret |-> FALSE]
  ELSE LET dropped == [c EXCEPT !.items = Without(c.items, hash),
                                !.accessOrder = FilterOut(c.accessOrder, hash)]
       IN IF ~(io.accessOk /\ hash \in DOMAIN c.files)
          THEN [c |-> [c EXCEPT !.items = Without(c.items, hash)], ret |-> FALSE]
          ELSE IF Expired(c.items[hash], t)
               THEN [c |-> IF io.unlinkOk
                           THEN [dropped EXCEPT !.files = Without(c.files, hash)]
                           ELSE dropped,
                     ret |-> FALSE]
               ELSE [c |-> c, ret |-> TRUE]

\* isCached: [c, ret]
isCached(c, hash, t, io) ==
  IF hash \notin DOMAIN c.items THEN [c |-> c, ret |-> FALSE]
  ELSE LET dropped == [c EXCEPT !.items = Without(c.items, hash),
                                !.accessOrder = FilterOut(c.accessOrder, hash)]
       IN IF ~(io.accessOk /\ hash \in DOMAIN c.files)
          THEN \* fs.access rejected: catch branch
               [c |-> dropped, ret |-> FALSE]
          ELSE IF Expired(c.items[hash], t)
               THEN \* expired: drop from the index, unlink(...).catch(() => {})
                    [c |-> IF io.unlinkOk
                           THEN [dropped EXCEPT !.files = Without(c.files, hash)]
                           ELSE dropped,
                     ret |-> FALSE]
               ELSE [c |-> c, ret |-> TRUE]

\* updateAccessTime: move to the MRU end and refresh the timestamp
updateAccessTime(c, hash, t) ==
  [c EXCEPT !.accessOrder = Append(FilterOut(c.accessOrder, hash), hash),
            !.items = IF hash \in DOMAIN c.items
                      THEN With(c.items, hash, t) ELSE c.items]

\* null
NoBytes == <<>>

\* getCachedItem: [c, hit, ret]; hit is what isCached answered
getCachedItem(c, hash, t, io) ==
  LET chk == isCached(c, hash, t, io)
  IN IF ~chk.ret THEN [c |-> chk.c, hit |-> FALSE, ret |-> NoBytes]
     ELSE LET touched == updateAccessTime(chk.c, hash, t)
          IN [c |-> touched, hit |-> TRUE,
              ret |-> IF io.readOk /\ hash \in DOMAIN touched.files
                      THEN touched.files[hash].bytes ELSE NoBytes]

\* cacheItem: [c, ret]
cacheItem(c, hash, buffer, t, io) ==
  IF ~io.writeOk THEN [c |-> c, ret |-> FALSE]
  ELSE LET written == [c EXCEPT
                 !.files = With(c.files, hash, [bytes |-> buffer, mtime |-> t]),
                 !.items = With(c.items, hash, t),
                 !.accessOrder = Append(c.accessOrder, hash)]
       IN [c |-> IF Cardinality(DOMAIN written.items) > MaxCacheSize
                 THEN removeOldestCacheItem(written, io.unlinkOk)
                 ELSE written,
           ret |-> TRUE]


RECURSIVE LoadFiles(_, _, _)
\* loadCacheIndex, the loop over readdir's answer: listing is the sequence of
\* <hash>.png files in the order readdir gave them; a file whose stat fails
\* is skipped
LoadFiles(c, listing, statFail) ==
  IF listing = <<>> THEN c
  ELSE LET hash == Head(listing)
       IN LoadFiles(
            IF hash \in statFail \/ hash \notin DOMAIN c.files THEN c
            ELSE [c EXCEPT !.items = With(c.items, hash, c.files[hash].mtime),
                           !.accessOrder = Append(c.accessOrder, hash)],
            Tail(listing), statFail)

\* new Map(), []
EmptyMap == [x \in {} |-> 0]

\* loadCacheIndex: a failing readdir resets the index
loadCacheIndex(c, listing, readdirOk, statFail) ==
  IF readdirOk THEN LoadFiles(c, listing, statFail)
  ELSE [c EXCEPT !.items = EmptyMap, !.accessOrder = <<>>]

\* cleanExpiredCache, first loop pair: every expired hash whose unlink
\* resolves leaves items, accessOrder and the directory; the others stay
RemoveExpired(c, t, unlinkFail) ==
  LET gone == {h \in DOMAIN c.items :
                 /\ Expired(c.items[h], t)
                 /\ UnlinkResolves(c, h, h \notin unlinkFail)}
  IN [items |-> [h \in DOMAIN c.items \ gone |-> c.items[h]],
      accessOrder |-> SelectSeq(c.accessOrder, LAMBDA h : h \notin gone),
      files |-> [h \in DOMAIN c.files \ gone |-> c.files[h]]]

RECURSIVE CapacitySweep(_, _)
\* cleanExpiredCache, the loop while (items.size > maxCacheSize): [c, hung];
\* with accessOrder empty removeOldestCacheItem returns at once and the loop
\* never leaves
CapacitySweep(c, unlinkFail) ==
  IF Cardinality(DOMAIN c.items) <= MaxCacheSize THEN [c |-> c, hung |-> FALSE]
  ELSE IF c.accessOrder = <<>> THEN [c |-> c, hung |-> TRUE]
  ELSE CapacitySweep(
         removeOldestCacheItem(c, Head(c.accessOrder) \notin unlinkFail),
         unlinkFail)

\* cleanExpiredCache: [c, hung]
cleanExpiredCache(c, t, unlinkFail) ==
  CapacitySweep(RemoveExpired(c, t, unlinkFail), unlinkFail)

\* initializeCache: [c, hung]
initializeCache(c, t, listing, readdirOk, statFail, unlinkFail) ==
  cleanExpiredCache(loadCacheIndex(c, listing, readdirOk, statFail), t, unlinkFail)


---------------------------------------------------------------------------
(* The cache under a client that awaits each call before the next one *)

\* the keys and images of the model
\* md5 digests
Keys == {"h1", "h2", "h3"}
\* image handed to cacheItem
Bytes == {<<"png", 2>>}

\* clock value at construction: a file of mtime 0 is already expired
InitNow == CacheTTL + 1

\* outcomes of the file operations of one call
IO == [accessOk : BOOLEAN, unlinkOk : BOOLEAN, readOk : BOOLEAN, writeOk : BOOLEAN]
NoFault(io) == io.accessOk /\ io.unlinkOk /\ io.readOk /\ io.writeOk
\* the outcomes a put can meet (writeFile, unlink), a get, a has
PutIO == {io \in IO : io.accessOk /\ io.readOk}
GetIO == {io \in IO : io.writeOk}
HasIO == {io \in IO : io.writeOk /\ io.readOk}

Cache == [items |-> items, accessOrder |-> accessOrder, files |-> files]

\* no indexed entry is past its TTL at time t
NoneExpired(c, t) == \A h \in DOMAIN c.items : ~Expired(c.items[h], t)

\* op: the call, key: its hash, was: the hash was indexed when the call
\* began, ok: what isCached / cacheItem answered,
\* bytes: the buffer given to cacheItem or returned by getCachedItem
NoOp == [op |-> "none", key |-> "", was |-> FALSE, ok |-> FALSE, bytes |-> NoBytes]

\* all orders in which readdir may list the files S
Listings(S) == {l \in [1..Cardinality(S) -> S] : \A h \in S : \E i \in DOMAIN l : l[i] = h}

\* no fingerprint request
NoFp == [pc |-> "none"]

\* no request handler, an empty temp directory
NoCalls == <<>>
NoTemp == [mmd |-> EmptyMap, png |-> EmptyMap]

\* images found in the directory at start
OldBytes == {<<"png", 1>>}

Init ==
  /\ items = EmptyMap
  /\ accessOrder = <<>>
  /\ \E S \in SUBSET Keys :
       files \in [S -> [bytes : OldBytes, mtime : {0, InitNow - CacheTTL}]]
  /\ now = InitNow
  /\ phase = "init"
  /\ clean = TRUE
  /\ lastOp = NoOp
  /\ fp = NoFp
  /\ calls = NoCalls
  /\ temp = NoTemp

\* the constructor's initializeCache() runs to its end
Initialize ==
  /\ phase = "init"
  /\ \E listing \in Listings(DOMAIN files), readdirOk \in BOOLEAN,
        statFail \in SUBSET DOMAIN files, unlinkFail \in SUBSET DOMAIN files :
       LET r == initializeCache(Cache, now, listing, readdirOk, statFail, unlinkFail)
           loaded == loadCacheIndex(Cache, listing, readdirOk, statFail)
           fault == ~(readdirOk /\ statFail = {} /\ unlinkFail = {})
       IN /\ items' = r.c.items
          /\ accessOrder' = r.c.accessOrder
          /\ files' = r.c.files
          /\ phase' = IF r.hung THEN "hung" ELSE "ready"
          /\ clean' = (~fault /\ NoneExpired(loaded, now))
          /\ lastOp' = [NoOp EXCEPT !.op = "init"]
  /\ UNCHANGED <<now, fp, svcVars>>

\* await cacheHelper.cacheItem(hash, buffer)
Put ==
  /\ phase = "ready"
  /\ Len(accessOrder) < MaxOrderLen
  /\ \E hash \in Keys, buffer \in Bytes, io \in PutIO :
       LET r == cacheItem(Cache, hash, buffer, now, io)
       IN /\ items' = r.c.items
          /\ accessOrder' = r.c.accessOrder
          /\ files' = r.c.files
          /\ clean' = (clean /\ NoFault(io) /\ NoneExpired(Cache, now))
          /\ lastOp' = [op |-> "put", key |-> hash, was |-> hash \in DOMAIN items,
                        ok |-> r.ret,
                        bytes |-> buffer]
  /\ UNCHANGED <<now, phase, fp, svcVars>>

\* await cacheHelper.getCachedItem(hash)
Get ==
  /\ phase = "ready"
  /\ \E hash \in Keys, io \in GetIO :
       LET r == getCachedItem(Cache, hash, now, io)
       IN /\ items' = r.c.items
          /\ accessOrder' = r.c.accessOrder
          /\ files' = r.c.files
          /\ clean' = (clean /\ NoFault(io) /\ NoneExpired(Cache, now))
          /\ lastOp' = [op |-> "get", key |-> hash, was |-> hash \in DOMAIN items,
                        ok |-> r.hit,
                        bytes |-> r.ret]
  /\ UNCHANGED <<now, phase, fp, svcVars>>

\* await cacheHelper.isCached(hash)
Has ==
  /\ phase = "ready"
  /\ \E hash \in Keys, io \in HasIO :
       LET r == isCached(Cache, hash, now, io)
       IN /\ items' = r.c.items
          /\ accessOrder' = r.c.accessOrder
          /\ files' = r.c.files
          /\ clean' = (clean /\ NoFault(io) /\ NoneExpired(Cache, now))
          /\ lastOp' = [op |-> "has", key |-> hash, was |-> hash \in DOMAIN items,
                        ok |-> r.ret,
                        bytes |-> NoBytes]
  /\ UNCHANGED <<now, phase, fp, svcVars>>

\* the clock advances
Tick ==
  /\ phase # "hung"
  /\ now < MaxTime
  /\ now' = now + 1
  /\ lastOp' = NoOp
  /\ UNCHANGED <<items, accessOrder, files, phase, clean, fp, svcVars>>

Next == Initialize \/ Put \/ Get \/ Has \/ Tick

Spec == Init /\ [][Next]_vars

TypeOK ==
  /\ DOMAIN items \subseteq Keys
  /\ \A h \in DOMAIN items : items[h] \in 0..MaxTime
  /\ \A i \in DOMAIN accessOrder : accessOrder[i] \in Keys
  /\ DOMAIN files \subseteq Keys
  /\ now \in InitNow..MaxTime
  /\ phase \in {"init", "ready", "hung"}


---------------------------------------------------------------------------
(* Claims on the cache, checked under Spec *)

\* the hashes that occur in accessOrder
InOrder(order) == {order[i] : i \in DOMAIN order}

\* C1. Capacity invariant: once a put has returned, the index holds at most
\* maxCacheSize keys -- also for repeated puts of one key and for puts whose
\* eviction meets a failing file delete.
C1_CapacityInvariant ==
  lastOp.op = "put" => Cardinality(DOMAIN items) <= MaxCacheSize

\* C2. TTL invariant: a get never returns bytes for an entry whose creation
\* time (the time of its put, or the mtime found at initialization; in both
\* cases the mtime of its file) lies more than cacheTTL in the past, whatever
\* reads of it succeeded since (no storage failure so far).
C2_TTLInvariant ==
  (lastOp.op = "get" /\ lastOp.bytes # NoBytes /\ clean)
    => ~Expired(files[lastOp.key].mtime, now)

\* C3. LRU order: with no expiry and no storage failure so far, a put of a
\* new key that takes the index over maxCacheSize evicts exactly one key, and
\* no indexed key was put or read longer ago than that one (an entry's
\* timestamp is the time of its latest put or successful get).
C3_LRUOrder ==
  [][(/\ lastOp'.op = "put" /\ lastOp'.ok /\ clean'
      /\ ~lastOp'.was
      /\ Cardinality(DOMAIN items) + 1 > MaxCacheSize)
     => \E e \in DOMAIN items :
          /\ \A j \in DOMAIN items : items[e] <= items[j]
          /\ DOMAIN items' = (DOMAIN items \cup {lastOp'.key}) \ {e}]_vars

\* C4. Round trip: a get of key k right after a successful put of bytes B
\* under k, with no expiry and no storage failure, returns exactly B.
C4_RoundTrip ==
  [][(/\ lastOp.op = "put" /\ lastOp.ok
      /\ lastOp'.op = "get" /\ lastOp'.key = lastOp.key
      /\ clean')
     => lastOp'.bytes = lastOp.bytes]_vars

\* C8. isCached answers true only for a key that is indexed, whose file is
\* there and whose entry is not expired; when it answers false for a key
\* that was indexed, the key has left items and accessOrder.
C8_IsCachedSound ==
  lastOp.op = "has"
    => /\ lastOp.ok => /\ lastOp.key \in DOMAIN items
                       /\ lastOp.key \in DOMAIN files
                       /\ ~Expired(items[lastOp.key], now)
       /\ (~lastOp.ok /\ lastOp.was)
            => /\ lastOp.key \notin DOMAIN items
               /\ lastOp.key \notin InOrder(accessOrder)

\* C8: isCached has answered false for a key that was indexed
C8_Witness == lastOp.op = "has" /\ ~lastOp.ok /\ lastOp.was

\* C9. A get whose isCached check passed and whose file read then failed
\* returns null and leaves the key in neither items nor accessOrder.
C9_ReadFailureEvicts ==
  (lastOp.op = "get" /\ lastOp.ok /\ lastOp.bytes = NoBytes)
    => /\ lastOp.key \notin DOMAIN items
       /\ lastOp.key \notin InOrder(accessOrder)

\* C10. Every eviction drops the key from items and accessOrder, also when
\* the file delete fails: the LRU eviction of a put over capacity, the
\* expiry sweep of initialization (no expired key stays indexed and the
\* index is trimmed to maxCacheSize), the inline expiry of isCached.
C10_EvictionDropsIndex ==
  [][/\ (lastOp'.op = "put" /\ lastOp'.ok
           /\ Cardinality(DOMAIN items \cup {lastOp'.key}) > MaxCacheSize)
        => LET e == Head(Append(accessOrder, lastOp'.key))
           IN e \in DOMAIN items \cup {lastOp'.key}
                => e \notin DOMAIN items' /\ e \notin InOrder(accessOrder')
     /\ lastOp'.op = "init"
        => /\ \A h \in DOMAIN items' : ~Expired(items'[h], now')
           /\ Cardinality(DOMAIN items') <= MaxCacheSize
     /\ (lastOp'.op \in {"has", "get"} /\ ~lastOp'.ok /\ lastOp'.was)
        => /\ lastOp'.key \notin DOMAIN items'
           /\ lastOp'.key \notin InOrder(accessOrder')]_vars


---------------------------------------------------------------------------
(* generateCacheKey on pairs of requests *)

\* longest text over the two characters "a" and "|"
MaxTextLen == 2

\* diagram texts: the empty text, short texts, and texts that contain the
\* separators of the hash input
KeyTexts ==
  UNION {[1..n -> {"a", "|"}] : n \in 0..MaxTextLen}
    \cup {<<"a", "|", "w", ":", "1">>, <<"a", "|", "w", ":", "1", "|", "h", ":", "1">>,
          <<"a", "|", "h", ":", "1">>}

\* widths and heights of a request: absent, NaN, 0, and numbers of one and
\* two digits
MaxDim == 11
KeyDims == {Undefined, NaN} \cup {0, 1, 10, MaxDim}
KeyOptions == [width : KeyDims, height : KeyDims]

InitKey ==
  /\ items = EmptyMap /\ accessOrder = <<>> /\ files = EmptyMap
  /\ now = InitNow /\ phase = "ready" /\ clean = TRUE /\ lastOp = NoOp
  /\ fp \in [pc : {"in"}, t1 : KeyTexts, o1 : KeyOptions, t2 : KeyTexts, o2 : KeyOptions]
  /\ calls = NoCalls
  /\ temp = NoTemp

\* cacheHelper.generateCacheKey on both requests
KeyCompute ==
  /\ fp.pc = "in"
  /\ fp' = [pc |-> "out", t1 |-> fp.t1, o1 |-> fp.o1, t2 |-> fp.t2, o2 |-> fp.o2,
            k1 |-> generateCacheKey(fp.t1, fp.o1),
            k2 |-> generateCacheKey(fp.t2, fp.o2)]
  /\ UNCHANGED <<cacheVars, svcVars>>

NextKey == KeyCompute

SpecKey == InitKey /\ [][NextKey]_vars

\* C6 as stated. Fingerprint sensitivity: two requests have the same hash
\* input exactly when their texts, widths and heights agree, an absent
\* width or height being different from every number, 0 included.
C6_Sensitivity ==
  fp.pc = "out"
    => (fp.k1 = fp.k2 <=> (/\ fp.t1 = fp.t2
                           /\ fp.o1.width = fp.o2.width
                           /\ fp.o1.height = fp.o2.height))

\* width || 'default': 0 and NaN are taken as absent
Falsy(x) == IF x = 0 \/ x = NaN THEN Undefined ELSE x

\* C6 amended. Two requests have the same hash input exactly when their
\* texts agree and their widths and their heights agree once 0 and NaN are
\* taken as absent; an absent value differs from every other number.
C6_SensitivityAmended ==
  fp.pc = "out"
    => (fp.k1 = fp.k2 <=> (/\ fp.t1 = fp.t2
                           /\ Falsy(fp.o1.width) = Falsy(fp.o2.width)
                           /\ Falsy(fp.o1.height) = Falsy(fp.o2.height)))

\* C6: the keys of two requests that differ only in their heights have been
\* computed and differ
C6_Witness ==
  /\ fp.pc = "out" /\ fp.k1 # fp.k2
  /\ fp.t1 = fp.t2 /\ fp.o1.width = fp.o2.width
  /\ fp.o1.height = Undefined /\ fp.o2.height = 1


---------------------------------------------------------------------------
(* Strings of the diagram text, as MermaidService reads them *)

\* \s
IsSpace(ch) == ch \in {" ", "\n", "\t", "\r"}

\* \w
IsWord(ch) == ch \in {"a", "b", "c", "d", "e", "f", "g", "h", "i", "j", "k", "l", "m",
                      "n", "o", "p", "q", "r", "s", "t", "u", "v", "w", "x", "y", "z",
                      "A", "B", "C", "D", "E", "F", "G", "H", "I", "J", "K", "L", "M",
                      "N", "O", "P", "Q", "R", "S", "T", "U", "V", "W", "X", "Y", "Z",
                      "0", "1", "2", "3", "4", "5", "6", "7", "8", "9", "_"}

\* number of leading whitespace characters: the match of /^\s+/
LeadingSpaces(s) ==
  IF \A i \in DOMAIN s : IsSpace(s[i]) THEN Len(s)
  ELSE (CHOOSE i \in DOMAIN s : ~IsSpace(s[i]) /\ \A j \in 1..(i - 1) : IsSpace(s[j])) - 1

\* number of trailing whitespace characters
TrailingSpaces(s) ==
  IF \A i \in DOMAIN s : IsSpace(s[i]) THEN Len(s)
  ELSE Len(s) - (CHOOSE i \in DOMAIN s : ~IsSpace(s[i]) /\ \A j \in (i + 1)..Len(s) : IsSpace(s[j]))

\* String.prototype.trim
trim(s) ==
  IF LeadingSpaces(s) = Len(s) THEN <<>>
  ELSE SubSeq(s, LeadingSpaces(s) + 1, Len(s) - TrailingSpaces(s))

\* String.prototype.startsWith
startsWith(s, prefix) ==
  Len(s) >= Len(prefix) /\ SubSeq(s, 1, Len(prefix)) = prefix

\* String.prototype.includes
includes(s, part) ==
  \E i \in 1..(Len(s) - Len(part) + 1) : SubSeq(s, i, i + Len(part) - 1) = part

RECURSIVE split(_)
\* s.split('\n')
split(s) ==
  IF \A i \in DOMAIN s : s[i] # "\n" THEN <<s>>
  ELSE LET cut == CHOOSE i \in DOMAIN s : s[i] = "\n" /\ \A j \in 1..(i - 1) : s[j] # "\n"
       IN <<SubSeq(s, 1, cut - 1)>> \o split(SubSeq(s, cut + 1, Len(s)))

\* line.match(/\[.*?\]/), line.match(/\(.*?\)/): an opening bracket with a
\* closing one after it and no line terminator in between
MatchesBrackets(line, open, close) ==
  \E i \in DOMAIN line :
    /\ line[i] = open
    /\ \E j \in (i + 1)..Len(line) :
         /\ line[j] = close
         /\ \A x \in (i + 1)..(j - 1) : line[x] \notin {"\n", "\r"}

\* line.match(/:\s*\w+,/)
MatchesTimelineEntry(line) ==
  \E i \in DOMAIN line :
    /\ line[i] = ":"
    /\ \E j \in (i + 1)..Len(line), k \in (i + 2)..Len(line) :
         /\ j < k /\ line[k] = ","
         /\ \A x \in (i + 1)..(j - 1) : IsSpace(line[x])
         /\ \A x \in j..(k - 1) : IsWord(line[x])



---------------------------------------------------------------------------
(* Numbers of the dimension planner: JavaScript doubles, kept as exact      *)
(* fractions <<numerator, denominator>> in lowest terms                     *)

RECURSIVE GCD(_, _)
GCD(a, b) == IF b = 0 THEN a ELSE GCD(b, a % b)

Frac(n, d) == LET g == GCD(n, d) IN <<n \div g, d \div g>>
Num(n) == <<n, 1>>
FMul(x, y) == Frac(x[1] * y[1], x[2] * y[2])
FDiv(x, y) == Frac(x[1] * y[2], x[2] * y[1])
FAdd(x, y) == Frac(x[1] * y[2] + y[1] * x[2], x[2] * y[2])
FLess(x, y) == x[1] * y[2] < y[1] * x[2]
FMax(x, y) == IF FLess(x, y) THEN y ELSE x
FMin(x, y) == IF FLess(y, x) THEN y ELSE x

---------------------------------------------------------------------------
(* MermaidService: the dimension planner *)

defaultWidth == 1920
defaultHeight == 1080
defaultScaleFactor == 2
minWidth == 800
maxWidth == 8000
minHeight == 400
maxHeight == 8000

\* a || b for an optional number: undefined, NaN and 0 are falsy
OrElse(x, y) == IF x = Undefined \/ x = NaN \/ x = 0 THEN y ELSE x

RECURSIVE NestingScan(_, _, _)
\* the loop of estimateNestingLevel over the remaining lines
NestingScan(lines, currentNestingLevel, maxNestingLevel) ==
  IF lines = <<>> THEN maxNestingLevel
  ELSE LET line == Head(lines)
           opens == includes(line, <<"s", "u", "b", "g", "r", "a", "p", "h">>) \/ includes(line, <<"s", "e", "c", "t", "i", "o", "n">>)
           opened == IF opens THEN currentNestingLevel + 1 ELSE currentNestingLevel
           maxOpened == IF opens /\ opened > maxNestingLevel THEN opened
                        ELSE maxNestingLevel
           closed == IF includes(line, <<"e", "n", "d">>) /\ opened > 0 THEN opened - 1 ELSE opened
           indentationLevel == LeadingSpaces(line) \div 2
       IN NestingScan(Tail(lines), closed,
                      IF indentationLevel > maxOpened THEN indentationLevel ELSE maxOpened)

estimateNestingLevel(mermaidCode) == NestingScan(split(mermaidCode), 0, 0)

\* the diagram type of a text
isFlowchart(mermaidCode) ==
  startsWith(trim(mermaidCode), <<"f", "l", "o", "w", "c", "h", "a", "r", "t">>) \/ startsWith(trim(mermaidCode), <<"g", "r", "a", "p", "h">>)
isGantt(mermaidCode) == startsWith(trim(mermaidCode), <<"g", "a", "n", "t", "t">>)
isSequence(mermaidCode) == startsWith(trim(mermaidCode), <<"s", "e", "q", "u", "e", "n", "c", "e", "D", "i", "a", "g", "r", "a", "m">>)

\* connectionCount and nodeCount: counted for flowcharts only
IsConnection(line) == includes(line, <<"-", "-", ">">>) \/ includes(line, <<"-", "-", "-">>)
connectionCount(mermaidCode) ==
  LET lines == split(mermaidCode)
  IN IF isFlowchart(mermaidCode)
     THEN Cardinality({i \in DOMAIN lines : IsConnection(lines[i])})
     ELSE 0
HasSquare(line) == MatchesBrackets(line, "[", "]")
HasRound(line) == MatchesBrackets(line, "(", ")")
nodeCount(mermaidCode) ==
  LET lines == split(mermaidCode)
  IN IF isFlowchart(mermaidCode)
     THEN Cardinality({i \in DOMAIN lines : HasSquare(lines[i])})
          + Cardinality({i \in DOMAIN lines : HasRound(lines[i])})
     ELSE 0

\* width = Math.max(width, least); height = width / targetAspectRatio
Widen(d, least, targetAspectRatio) ==
  [width |-> FMax(d.width, Num(least)),
   height |-> FDiv(FMax(d.width, Num(least)), targetAspectRatio)]
\* height = Math.max(height, least); width = height * targetAspectRatio
Heighten(d, least, targetAspectRatio) ==
  [width |-> FMul(FMax(d.height, Num(least)), targetAspectRatio),
   height |-> FMax(d.height, Num(least))]

\* the flowchart branch
FlowchartDimensions(d, mermaidCode) ==
  LET isWide == includes(mermaidCode, <<"L", "R">>) \/ includes(mermaidCode, <<"R", "L">>)
      isTall == includes(mermaidCode, <<"T", "D">>) \/ includes(mermaidCode, <<"B", "T">>)
  IN IF ~isFlowchart(mermaidCode) THEN d
     ELSE IF isWide /\ nodeCount(mermaidCode) > 15 THEN Widen(d, 3840, Frac(4, 1))
     ELSE IF isWide /\ nodeCount(mermaidCode) > 8 THEN Widen(d, 2560, Frac(3, 1))
     ELSE IF isTall /\ nodeCount(mermaidCode) > 20 THEN Heighten(d, 4320, Frac(9, 24))
     ELSE IF isTall /\ nodeCount(mermaidCode) > 15 THEN Heighten(d, 2160, Frac(9, 16))
     ELSE d

\* the deep-nesting branch
NestingDimensions(d, nestingLevel) ==
  IF nestingLevel > 4
  THEN Heighten(d, 1080 + nestingLevel * 200,
                FMax(Frac(9, 16), Frac(9, 16 + nestingLevel)))
  ELSE d

\* the Gantt branch
GanttDimensions(d, mermaidCode) ==
  LET lines == split(mermaidCode)
      timelineEntries == Cardinality({i \in DOMAIN lines : MatchesTimelineEntry(lines[i])})
  IN IF ~isGantt(mermaidCode) THEN d
     ELSE IF timelineEntries > 15
       THEN Heighten(d, 3200, Frac(2, 3))
       ELSE Widen(d, 3200, Frac(3, 1))

IsActor(line) == includes(line, <<"p", "a", "r", "t", "i", "c", "i", "p", "a", "n", "t">>) \/ includes(line, <<"a", "c", "t", "o", "r">>)
IsMessage(line) ==
  \/ includes(line, <<"-", ">">>) \/ includes(line, <<"-", "-", ">">>)
  \/ includes(line, <<"-", ">", ">">>) \/ includes(line, <<"-", "-", ">", ">">>)
  \/ includes(line, <<"<", "-">>) \/ includes(line, <<"<", "-", "-">>)

\* the sequence-diagram branch
SequenceDimensions(d, mermaidCode) ==
  LET lines == split(mermaidCode)
      actorCount == Cardinality({i \in DOMAIN lines : IsActor(lines[i])})
      messageCount == Cardinality({i \in DOMAIN lines : IsMessage(lines[i])})
  IN IF ~isSequence(mermaidCode) THEN d
     ELSE IF actorCount <= 5 /\ messageCount > 15 THEN Heighten(d, 2560, Frac(2, 3))
     ELSE IF actorCount > 5 THEN Widen(d, 2560, Frac(2, 1))
     ELSE d

\* the constraints without their minimum
ConstrainUpper(d) ==
  [width |-> FMin(Num(maxWidth), d.width),
   height |-> FMin(Num(maxHeight), d.height)]
\* the min/max constraints
Constrain(d) ==
  [width |-> FMax(Num(minWidth), FMin(Num(maxWidth), d.width)),
   height |-> FMax(Num(minHeight), FMin(Num(maxHeight), d.height))]

\* the scale factor of the complexity of the text
ComplexityScale(mermaidCode) ==
  IF nodeCount(mermaidCode) > 30 \/ connectionCount(mermaidCode) > 40 THEN Frac(3, 1)
  ELSE IF nodeCount(mermaidCode) > 15 \/ connectionCount(mermaidCode) > 20 THEN Frac(5, 2)
  ELSE Num(defaultScaleFactor)

\* the scale factor boosted whatever the height
WithScaleBoosted(d, complexity) ==
  [width |-> d.width, height |-> d.height,
   scaleFactor |-> FMin(Frac(3, 1), FAdd(complexity, Frac(1, 2)))]
\* the scale factor, boosted for a height over 1.5 times the width
WithScale(d, complexity) ==
  [width |-> d.width, height |-> d.height,
   scaleFactor |-> IF FLess(FMul(d.width, Frac(3, 2)), d.height)
                   THEN FMin(Frac(3, 1), FAdd(complexity, Frac(1, 2)))
                   ELSE complexity]

\* calculateOptimalDimensions: [width, height, scaleFactor]
calculateOptimalDimensions(mermaidCode, requestedWidth, requestedHeight) ==
  WithScale(
    Constrain(
      SequenceDimensions(
        GanttDimensions(
          NestingDimensions(
            FlowchartDimensions(
              [width |-> Num(OrElse(requestedWidth, defaultWidth)),
               height |-> Num(OrElse(requestedHeight, defaultHeight))],
              mermaidCode),
            estimateNestingLevel(mermaidCode)),
          mermaidCode),
        mermaidCode)),
    ComplexityScale(mermaidCode))


---------------------------------------------------------------------------
(* The conversion service: ConvertController.convertImage around          *)
(* MermaidService.convertMermaidToImage, one call per request handler.     *)
(* Each await of convertMermaidToImage is a step of its own: other         *)
(* handlers run between the steps.  The calls into the cache and the file  *)
(* operations of the cache meet no storage failure here.                   *)

\* request handlers that run at the same time
NumProcs == 2
Procs == 1..NumProcs

\* an absent scaleFactor; a scaleFactor that is there is a fraction
NoScale == <<>>
\* a || b for an optional scaleFactor: undefined and 0 are falsy
ScaleOrElse(s, y) == IF s = NoScale THEN y ELSE IF s[1] = 0 THEN y ELSE s

\* req.body.mermaidSyntax: no text, and a flowchart
ServiceTexts == {<<>>, <<"g", "r", "a", "p", "h", " ", "T", "D", "\n", "A", "-", "-", ">", "B">>}
\* req.body
Bodies == [mermaidSyntax : ServiceTexts,
           width : {Undefined, 1000},
           height : {Undefined, 300},
           scaleFactor : {NoScale, Frac(1, 1), Frac(3, 1)}]

\* convertImage: the render options of a request body
renderOptions(body) ==
  LET width == OrElse(body.width, Undefined)
      height == OrElse(body.height, Undefined)
      scaleFactor == ScaleOrElse(body.scaleFactor, NoScale)
      isWideAspectRatio ==
        width # Undefined /\ height # Undefined /\ 2 * width > 5 * height
  IN [width |-> width, height |-> height,
      scaleFactor |-> ScaleOrElse(scaleFactor,
                                  IF isWideAspectRatio THEN Frac(5, 2) ELSE NoScale)]

\* cleanMermaidSyntax on the texts of ServiceTexts: they hold no backslash,
\* colon, comma or date for the replacements to match, and they are no
\* ZenUML, gantt, classDiagram or flowchart text, so the text is returned
\* as it came
cleanMermaidSyntax(code) == code

\* the image that mmdc writes for an input file and its command line; the
\* renderer is deterministic and every argument shows in the pixels
mmdc(input, width, height, scale) == <<"png", input, width, height, scale>>

\* every file operation succeeds
AllOk == [accessOk |-> TRUE, unlinkOk |-> TRUE, readOk |-> TRUE, writeOk |-> TRUE]

\* a handler that has not received its request
Idle == [pc |-> "idle", mermaidCode |-> <<>>,
         options |-> [width |-> Undefined, height |-> Undefined, scaleFactor |-> NoScale],
         cacheKey |-> <<>>, inputContent |-> <<>>, imageBuffer |-> NoBytes,
         fault |-> FALSE, status |-> 0, sent |-> NoBytes]

\* res.status(status): the handler is done; sent is the image of a 200
Respond(call, status, sent) ==
  [call EXCEPT !.pc = "done", !.status = status, !.sent = sent]

InitService ==
  /\ items = EmptyMap /\ accessOrder = <<>> /\ files = EmptyMap
  /\ now = InitNow /\ phase = "ready" /\ clean = TRUE /\ lastOp = NoOp
  /\ fp = NoFp
  /\ calls = [p \in Procs |-> Idle]
  /\ temp = NoTemp

\* convertImage up to the first await of convertMermaidToImage that can
\* wait: generateCacheKey and getCachedItem
convertImage(p) ==
  /\ calls[p].pc = "idle"
  /\ \E body \in Bodies :
       IF body.mermaidSyntax = <<>>
       THEN /\ calls' = [calls EXCEPT ![p] = Respond(@, 400, NoBytes)]
            /\ UNCHANGED <<items, accessOrder, files>>
       ELSE LET options == renderOptions(body)
                cacheKey == generateCacheKey(body.mermaidSyntax, options)
                r == getCachedItem(Cache, cacheKey, now, AllOk)
                call == [calls[p] EXCEPT !.mermaidCode = body.mermaidSyntax,
                                         !.options = options,
                                         !.cacheKey = cacheKey]
            IN /\ items' = r.c.items
               /\ accessOrder' = r.c.accessOrder
               /\ files' = r.c.files
               /\ calls' = [calls EXCEPT ![p] =
                              IF r.ret # NoBytes THEN Respond(call, 200, r.ret)
                              ELSE [call EXCEPT !.pc = "create"]]
  /\ UNCHANGED <<now, phase, clean, lastOp, fp, temp>>

\* await this.createTempMermaidFile(mermaidCode, inputFile)
createTempMermaidFile(p) ==
  /\ calls[p].pc = "create"
  /\ temp' = [temp EXCEPT !.mmd = With(temp.mmd, calls[p].cacheKey,
                                       cleanMermaidSyntax(calls[p].mermaidCode))]
  /\ calls' = [calls EXCEPT ![p].pc = "convert"]
  /\ UNCHANGED <<cacheVars, fp>>

\* convertToPng: fs.readFile(inputFile); a missing file ends in `return
\* false` and convertMermaidToImage throws
convertToPngRead(p) ==
  /\ calls[p].pc = "convert"
  /\ calls' = [calls EXCEPT ![p] =
                 IF calls[p].cacheKey \in DOMAIN temp.mmd
                 THEN [@ EXCEPT !.pc = "exec", !.inputContent = temp.mmd[calls[p].cacheKey]]
                 ELSE Respond(@, 500, NoBytes)]
  /\ UNCHANGED <<cacheVars, fp, temp>>

\* the mmdc command: it writes the output file, or resolves without one, or
\* execPromise rejects
MmdcOutcomes == {"written", "nofile", "rejected"}

\* convertToPng without the `return false` of a failed command: the call
\* goes on to the output file
convertToPngExecLenient(p) ==
  /\ calls[p].pc = "exec"
  /\ \E outcome \in MmdcOutcomes :
       LET call == calls[p]
           d == calculateOptimalDimensions(call.inputContent,
                                           call.options.width, call.options.height)
           scale == ScaleOrElse(call.options.scaleFactor, d.scaleFactor)
           written == outcome = "written" /\ call.cacheKey \in DOMAIN temp.mmd
           png == IF written
                  THEN With(temp.png, call.cacheKey,
                            mmdc(temp.mmd[call.cacheKey], d.width, d.height, scale))
                  ELSE temp.png
       IN /\ temp' = [temp EXCEPT !.png = png]
          /\ calls' = [calls EXCEPT ![p] =
                         [@ EXCEPT !.pc = IF call.cacheKey \in DOMAIN png
                                          THEN "read" ELSE "store",
                                   !.fault = @ \/ outcome # "written"]]
  /\ UNCHANGED <<cacheVars, fp>>

\* convertToPng: the mmdc command and fs.access(outputFile); the texts are
\* no gantt and no ZenUML text, so a failure has no fallback: a rejected
\* command and a missing output file end in `return false`, and
\* convertMermaidToImage throws
convertToPngExec(p) ==
  /\ calls[p].pc = "exec"
  /\ \E outcome \in MmdcOutcomes :
       LET call == calls[p]
           d == calculateOptimalDimensions(call.inputContent,
                                           call.options.width, call.options.height)
           scale == ScaleOrElse(call.options.scaleFactor, d.scaleFactor)
           written == outcome = "written" /\ call.cacheKey \in DOMAIN temp.mmd
           png == IF written
                  THEN With(temp.png, call.cacheKey,
                            mmdc(temp.mmd[call.cacheKey], d.width, d.height, scale))
                  ELSE temp.png
       IN /\ temp' = [temp EXCEPT !.png = png]
          /\ calls' = [calls EXCEPT ![p] =
                         IF outcome # "rejected" /\ call.cacheKey \in DOMAIN png
                         THEN [@ EXCEPT !.pc = "read", !.fault = @ \/ outcome # "written"]
                         ELSE Respond([@ EXCEPT !.fault = @ \/ outcome # "written"],
                                      500, NoBytes)]
  /\ UNCHANGED <<cacheVars, fp>>

\* const imageBuffer = await fs.readFile(outputFile)
readOutput(p) ==
  /\ calls[p].pc = "read"
  /\ calls' = [calls EXCEPT ![p] =
                 IF calls[p].cacheKey \in DOMAIN temp.png
                 THEN [@ EXCEPT !.pc = "store", !.imageBuffer = temp.png[calls[p].cacheKey]]
                 ELSE Respond(@, 500, NoBytes)]
  /\ UNCHANGED <<cacheVars, fp, temp>>

\* await this.cacheHelper.cacheItem(cacheKey, imageBuffer)
addToCache(p) ==
  /\ calls[p].pc = "store"
  /\ Len(accessOrder) < MaxOrderLen
  /\ LET r == cacheItem(Cache, calls[p].cacheKey, calls[p].imageBuffer, now, AllOk)
     IN /\ items' = r.c.items
        /\ accessOrder' = r.c.accessOrder
        /\ files' = r.c.files
  /\ calls' = [calls EXCEPT ![p].pc = "cleanup"]
  /\ UNCHANGED <<now, phase, clean, lastOp, fp, temp>>

\* the two unlinks of the temporary files, `return imageBuffer`, res.send
cleanUp(p) ==
  /\ calls[p].pc = "cleanup"
  /\ temp' = [mmd |-> Without(temp.mmd, calls[p].cacheKey),
              png |-> Without(temp.png, calls[p].cacheKey)]
  /\ calls' = [calls EXCEPT ![p] = Respond(@, 200, calls[p].imageBuffer)]
  /\ UNCHANGED <<cacheVars, fp>>

NextService ==
  \E p \in Procs :
    \/ convertImage(p)
    \/ createTempMermaidFile(p)
    \/ convertToPngRead(p)
    \/ convertToPngExec(p)
    \/ readOutput(p)
    \/ addToCache(p)
    \/ cleanUp(p)

SpecService == InitService /\ [][NextService]_vars


---------------------------------------------------------------------------
(* Claims on the service, checked under SpecService *)

\* number of positions of accessOrder that hold hash
Positions(order, hash) == Cardinality({i \in DOMAIN order : order[i] = hash})

\* C5. Concurrent cold-cache scenario: when two calls with the same text,
\* width and height (and scaleFactor) have both ended on a cache that was
\* empty, and the renderer failed for neither, both have returned the same
\* bytes and the cache holds one entry and one access-order position for
\* their fingerprint.
C5_ColdCacheScenario ==
  \A p, q \in Procs :
    (/\ p # q
     /\ calls[p].pc = "done" /\ calls[q].pc = "done"
     /\ calls[p].mermaidCode # <<>>
     /\ calls[p].mermaidCode = calls[q].mermaidCode
     /\ calls[p].options = calls[q].options
     /\ ~calls[p].fault /\ ~calls[q].fault)
    => /\ calls[p].status = 200 /\ calls[q].status = 200
       /\ calls[p].sent = calls[q].sent
       /\ calls[p].cacheKey \in DOMAIN items
       /\ Positions(accessOrder, calls[p].cacheKey) = 1

\* what mmdc renders for a text under the options of its own request
ownRender(mermaidCode, options) ==
  LET input == cleanMermaidSyntax(mermaidCode)
      d == calculateOptimalDimensions(input, options.width, options.height)
  IN mmdc(input, d.width, d.height, ScaleOrElse(options.scaleFactor, d.scaleFactor))

\* C7. Cache transparency: whatever requests came before, the bytes a
\* request is answered with are the bytes that a render of its text with
\* its own width, height and scaleFactor produces.
C7_CacheTransparency ==
  \A p \in Procs :
    calls[p].status = 200
      => calls[p].sent = ownRender(calls[p].mermaidCode, calls[p].options)


---------------------------------------------------------------------------
(* initializeCache alone, on every directory content *)

\* a cache directory at construction: files that are expired (mtime 0),
\* at the edge of the TTL, and new
InitDir ==
  /\ items = EmptyMap
  /\ accessOrder = <<>>
  /\ \E S \in SUBSET Keys :
       files \in [S -> [bytes : OldBytes, mtime : {0, InitNow - CacheTTL, InitNow}]]
  /\ now = InitNow
  /\ phase = "init"
  /\ clean = TRUE
  /\ lastOp = NoOp
  /\ fp = NoFp
  /\ calls = NoCalls
  /\ temp = NoTemp

\* the constructor's initializeCache() runs to its end; fp keeps what the
\* directory held and how the file operations answered
InitializeDir ==
  /\ phase = "init"
  /\ \E listing \in Listings(DOMAIN files), readdirOk \in BOOLEAN,
        statFail \in SUBSET DOMAIN files, unlinkFail \in SUBSET DOMAIN files :
       LET r == initializeCache(Cache, now, listing, readdirOk, statFail, unlinkFail)
       IN /\ items' = r.c.items
          /\ accessOrder' = r.c.accessOrder
          /\ files' = r.c.files
          /\ phase' = IF r.hung THEN "hung" ELSE "ready"
          /\ fp' = [pc |-> "initialized", dir |-> files, listing |-> listing,
                    readdirOk |-> readdirOk, statFail |-> statFail,
                    unlinkFail |-> unlinkFail]
  /\ lastOp' = [NoOp EXCEPT !.op = "init"]
  /\ UNCHANGED <<now, clean, svcVars>>

NextInit == InitializeDir

SpecInit == InitDir /\ [][NextInit]_vars

\* the smaller of two numbers
Min(a, b) == IF a < b THEN a ELSE b

\* C12. Initialization postcondition: when initializeCache has finished, the
\* index is empty if the listing failed; otherwise it holds, of the files
\* whose stat answered and whose mtime is within cacheTTL, all up to
\* maxCacheSize, none of the dropped ones used later than a kept one, each
\* kept one with its mtime as timestamp and its file still there.
C12_InitPostcondition ==
  (fp.pc = "initialized" /\ phase = "ready")
    => IF ~fp.readdirOk THEN DOMAIN items = {}
       ELSE LET seen == {h \in DOMAIN fp.dir \ fp.statFail :
                           ~Expired(fp.dir[h].mtime, now)}
            IN /\ DOMAIN items \subseteq seen
               /\ Cardinality(DOMAIN items) = Min(Cardinality(seen), MaxCacheSize)
               /\ \A k \in DOMAIN items :
                    /\ k \in DOMAIN files
                    /\ items[k] = fp.dir[k].mtime
                    /\ \A d \in seen \ DOMAIN items :
                         fp.dir[d].mtime <= fp.dir[k].mtime

---------------------------------------------------------------------------
(* Construction: new MermaidService(options), new CacheHelper(options) *)

\* largest magnitude of a configured maxCacheSize or cacheTTL
MaxConfig == 3

\* an option that is not given; an option that is given is <<n>>
Absent == <<>>
ConfigValues == {Absent} \cup {<<n>> : n \in (0 - MaxConfig)..MaxConfig}

\* the defaults of the constructors
defaultMaxCacheSize == 100
defaultCacheTTL == 86400000

\* option || fallback: an absent option and 0 are falsy
OptionOrElse(option, fallback) ==
  IF option = Absent THEN fallback
  ELSE IF option[1] = 0 THEN fallback ELSE option[1]

\* new CacheHelper(options): the fields of the object; the constructor has
\* no throw statement and catches the rejection of initializeCache
CacheHelperConstructor(options) ==
  [maxCacheSize |-> OptionOrElse(options.maxCacheSize, defaultMaxCacheSize),
   cacheTTL |-> OptionOrElse(options.cacheTTL, defaultCacheTTL),
   raised |-> FALSE]

\* new MermaidService(options): the CacheHelper it builds
MermaidServiceConstructor(options) ==
  CacheHelperConstructor(
    [maxCacheSize |-> <<OptionOrElse(options.maxCacheSize, defaultMaxCacheSize)>>,
     cacheTTL |-> <<OptionOrElse(options.cacheTTL, defaultCacheTTL)>>])

InitConfig ==
  /\ items = EmptyMap /\ accessOrder = <<>> /\ files = EmptyMap
  /\ now = InitNow /\ phase = "init" /\ clean = TRUE /\ lastOp = NoOp
  /\ fp \in [pc : {"new"}, options : [maxCacheSize : ConfigValues, cacheTTL : ConfigValues]]
  /\ calls = NoCalls
  /\ temp = NoTemp

\* the service is constructed with the options
Construct ==
  /\ fp.pc = "new"
  /\ fp' = [pc |-> "constructed", options |-> fp.options,
            cacheHelper |-> MermaidServiceConstructor(fp.options)]
  /\ UNCHANGED <<cacheVars, svcVars>>

NextConfig == Construct

SpecConfig == InitConfig /\ [][NextConfig]_vars

\* the option is given and is <= 0
NotPositive(option) == IF option = Absent THEN FALSE ELSE option[1] <= 0

\* C13. A construction with maxCacheSize <= 0 or cacheTTL <= 0 raises to its
\* caller, and no cache object that was constructed without raising has a
\* maxCacheSize or cacheTTL that is not positive.
C13_FailFast ==
  fp.pc = "constructed"
    => /\ (NotPositive(fp.options.maxCacheSize) \/ NotPositive(fp.options.cacheTTL))
            => fp.cacheHelper.raised
       /\ ~fp.cacheHelper.raised
            => fp.cacheHelper.maxCacheSize > 0 /\ fp.cacheHelper.cacheTTL > 0

---------------------------------------------------------------------------
(* convertToPng up to its command line, on every input file content and   *)
(* every render option of PlanBodies                                      *)

\* lines of a text with one node each, and the spaces before a deep line
ManyNodes == 16
MoreNodes == 31
DeepIndent == 10

RECURSIVE Repeat(_, _)
\* n times the piece
Repeat(piece, n) == IF n = 0 THEN <<>> ELSE piece \o Repeat(piece, n - 1)

\* inputContent: the empty text; texts that are no flowchart, gantt or
\* sequence diagram, flat and indented; flowcharts with few and many nodes,
\* wide and tall, flat and indented; a gantt chart; a sequence diagram
PlanTexts ==
  {<<>>,
   <<"m", "i", "n", "d", "m", "a", "p", "\n", " ", " ", "r", "o", "o", "t">>,
   <<"m", "i", "n", "d", "m", "a", "p", "\n">> \o Repeat(<<" ">>, DeepIndent) \o <<"a">>,
   <<"c", "l", "a", "s", "s", "D", "i", "a", "g", "r", "a", "m", "\n", " ", " ", "c", "l", "a", "s", "s", " ", "A">>,
   <<"g", "r", "a", "p", "h", " ", "T", "D", "\n", "A", "-", "-", ">", "B">>,
   <<"g", "r", "a", "p", "h", " ", "L", "R", "\n">> \o Repeat(<<"A", "[", "x", "]", "\n">>, ManyNodes),
   <<"g", "r", "a", "p", "h", " ", "L", "R", "\n">> \o Repeat(Repeat(<<" ">>, DeepIndent) \o <<"A", "[", "x", "]", "\n">>, ManyNodes),
   <<"g", "r", "a", "p", "h", " ", "T", "D", "\n">> \o Repeat(<<"A", "[", "x", "]", "\n">>, MoreNodes),
   <<"g", "a", "n", "t", "t", "\n", " ", "t", "i", "t", "l", "e", " ", "x">>,
   <<"s", "e", "q", "u", "e", "n", "c", "e", "D", "i", "a", "g", "r", "a", "m", "\n", "A", "-", ">", ">", "B", ":", " ", "x">>}

\* req.body.width, req.body.height and req.body.scaleFactor after parseInt
\* and parseFloat
PlanBodies == [width : {Undefined, 50, 1000, 9000},
               height : {Undefined, 50, 300, 9000},
               scaleFactor : {NoScale, Frac(1, 2), Frac(1, 1), Frac(3, 1), Frac(5, 1)}]

\* convertToPng: the dimensions and the scale of the mmdc command line
convertToPngCommand(inputContent, options) ==
  LET d == calculateOptimalDimensions(inputContent, options.width, options.height)
  IN [width |-> d.width, height |-> d.height,
      scale |-> ScaleOrElse(options.scaleFactor, d.scaleFactor)]

InitPlan ==
  /\ items = EmptyMap /\ accessOrder = <<>> /\ files = EmptyMap
  /\ now = InitNow /\ phase = "ready" /\ clean = TRUE /\ lastOp = NoOp
  /\ calls = NoCalls /\ temp = NoTemp
  /\ fp \in [pc : {"request"}, inputContent : PlanTexts, body : PlanBodies]

\* the controller hands renderOptions of the body to the service, and
\* convertToPng plans the dimensions and builds the command
Plan ==
  /\ fp.pc = "request"
  /\ LET options == renderOptions(fp.body)
     IN fp' = [pc |-> "planned", inputContent |-> fp.inputContent, body |-> fp.body,
               options |-> options,
               planned |-> calculateOptimalDimensions(fp.inputContent,
                                                      options.width, options.height),
               command |-> convertToPngCommand(fp.inputContent, options)]
  /\ UNCHANGED <<cacheVars, svcVars>>

NextPlan == Plan

SpecPlan == InitPlan /\ [][NextPlan]_vars

\* lo <= x <= hi for a fraction x and integers lo, hi
Within(x, lo, hi) == ~FLess(x, Num(lo)) /\ ~FLess(Num(hi), x)

C15_WideFlowchart ==
  (/\ fp.pc = "planned"
   /\ isFlowchart(fp.inputContent)
   /\ includes(fp.inputContent, <<"L", "R">>)
   /\ nodeCount(fp.inputContent) > 15)
    => /\ ~FLess(fp.planned.width, Num(3840))
       /\ ~FLess(FDiv(fp.planned.width, fp.planned.height), Frac(7, 2))
       /\ ~FLess(Frac(9, 2), FDiv(fp.planned.width, fp.planned.height))

\* C16. Default fallback: calculateOptimalDimensions on the empty text with
\* no requested width or height returns exactly width 1920, height 1080 and
\* scaleFactor 2.0 (the operator is total: no error is raised).
C16_DefaultFallback ==
  (/\ fp.pc = "planned"
   /\ fp.inputContent = <<>>
   /\ fp.options.width = Undefined /\ fp.options.height = Undefined)
    => fp.planned = [width |-> Num(defaultWidth), height |-> Num(defaultHeight),
                     scaleFactor |-> Num(defaultScaleFactor)]

\* the empty text was planned without a requested size
C16_Witness ==
  /\ fp.pc = "planned"
  /\ fp.inputContent = <<>>
  /\ fp.body.width = Undefined /\ fp.body.height = Undefined
  /\ fp.planned.width = Num(1920) /\ fp.planned.height = Num(1080)
  /\ fp.planned.scaleFactor = Num(2)

\* C17. No heuristic for an unrecognized text: for every text whose leading
\* keyword is not flowchart, graph, gantt or sequenceDiagram,
\* calculateOptimalDimensions returns the requested (or default 1920x1080)
\* dimensions clamped to the bounds, and scaleFactor 2.0.
C17_UnrecognizedText ==
  (/\ fp.pc = "planned"
   /\ ~isFlowchart(fp.inputContent)
   /\ ~isGantt(fp.inputContent)
   /\ ~isSequence(fp.inputContent))
    => fp.planned =
         [width |-> FMax(Num(minWidth),
                         FMin(Num(maxWidth), Num(OrElse(fp.options.width, defaultWidth)))),
          height |-> FMax(Num(minHeight),
                          FMin(Num(maxHeight), Num(OrElse(fp.options.height, defaultHeight)))),
          scaleFactor |-> Num(defaultScaleFactor)]

\* C18. Scale range: the scale factor passed to the renderer is always
\* within [1.0, 3.0], whether it was computed or explicitly requested.
C18_ScaleRange ==
  fp.pc = "planned" => Within(fp.command.scale, 1, 3)

---------------------------------------------------------------------------
(* POST /convert/image: validateMermaidSyntax, then                        *)
(* ConvertController.convertImage.  A validation chain is started by       *)
(* run(req), which returns a promise; its errors are on the request when   *)
(* the promise has resolved, and the middleware does not await it.         *)

\* req.body.width and req.body.height: absent, no integer, below the
\* range, within it, above it
BelowRange == 50
AboveRange == 20000
RouteSizes == {Undefined, NaN, BelowRange, 1000, AboveRange}
RouteBodies == [mermaidSyntax : ServiceTexts, width : RouteSizes, height : RouteSizes]

\* the three chains of the middleware
Chains == {"mermaidSyntax", "width", "height"}

\* optional().isInt({ min: 100, max: 10000 }) on a value
IsIntError(value) ==
  value # Undefined /\ (value = NaN \/ value < 100 \/ value > 10000)

\* the errors that a chain finds in the body
ChainErrors(chain, body) ==
  IF chain = "mermaidSyntax" THEN IF body.mermaidSyntax = <<>> THEN {chain} ELSE {}
  ELSE IF chain = "width" THEN IF IsIntError(body.width) THEN {chain} ELSE {}
  ELSE IF IsIntError(body.height) THEN {chain} ELSE {}

\* validationResult(req): the errors of the chains that have finished
validationResult(req) == req.errors

\* a request that has reached the route
InitRoute ==
  /\ items = EmptyMap /\ accessOrder = <<>> /\ files = EmptyMap
  /\ now = InitNow /\ phase = "ready" /\ clean = TRUE /\ lastOp = NoOp
  /\ calls = NoCalls /\ temp = NoTemp
  /\ fp \in [pc : {"received"}, body : RouteBodies, running : {{}}, errors : {{}},
             invoked : {FALSE}, status : {0}]

\* validateMermaidSyntax: the three run(req) calls, validationResult(req)
\* right after them, and res.status(400) or next()
validateMermaidSyntax ==
  /\ fp.pc = "received"
  /\ LET req == [fp EXCEPT !.running = Chains]
     IN fp' = IF validationResult(req) # {}
              THEN [req EXCEPT !.pc = "done", !.status = 400]
              ELSE [req EXCEPT !.pc = "next"]
  /\ UNCHANGED <<cacheVars, svcVars>>

\* convertImage up to `await this.mermaidService.convertMermaidToImage`; it
\* runs in the same turn as next()
convertImageRoute ==
  /\ fp.pc = "next"
  /\ fp' = IF fp.body.mermaidSyntax = <<>>
           THEN [fp EXCEPT !.pc = "done", !.status = 400]
           ELSE [fp EXCEPT !.pc = "awaiting", !.invoked = TRUE]
  /\ UNCHANGED <<cacheVars, svcVars>>

\* the promise of a chain resolves, once the handlers have given up the turn
chainFinishes ==
  /\ fp.pc \in {"awaiting", "done"}
  /\ \E chain \in fp.running :
       fp' = [fp EXCEPT !.running = @ \ {chain},
                        !.errors = @ \cup ChainErrors(chain, fp.body)]
  /\ UNCHANGED <<cacheVars, svcVars>>

\* convertMermaidToImage resolves (200) or rejects (500)
serviceSettles ==
  /\ fp.pc = "awaiting"
  /\ \E resolved \in BOOLEAN :
       fp' = [fp EXCEPT !.pc = "done", !.status = IF resolved THEN 200 ELSE 500]
  /\ UNCHANGED <<cacheVars, svcVars>>

NextRoute ==
  \/ validateMermaidSyntax
  \/ convertImageRoute
  \/ chainFinishes
  \/ serviceSettles

SpecRoute == InitRoute /\ [][NextRoute]_vars

\* C19. Size validation: a request whose width is no integer, or whose
\* width or height lies outside 100..10000, is answered with status 400 and
\* convertMermaidToImage is never invoked for it.
C19_InvalidSizeRejected ==
  (IsIntError(fp.body.width) \/ IsIntError(fp.body.height))
    => /\ ~fp.invoked
       /\ fp.pc = "done" => fp.status = 400

---------------------------------------------------------------------------
(* Render failure, checked under SpecService *)

\* the cache is as it was
CacheUnchanged == UNCHANGED <<items, accessOrder, files>>

\* the call of handler p ends in this step with status 500 and the cache
\* is left as it was
Rejects(p) ==
  /\ calls'[p].pc = "done" /\ calls'[p].status = 500 /\ calls'[p].sent = NoBytes
  /\ CacheUnchanged

\* C20. Render failure: in every step of the render (convertToPng reading
\* its input, running the command and checking the output file, and the
\* read of the output file) the call either goes on with the file it needs
\* at hand, or convertMermaidToImage rejects: the controller answers 500 and
\* no index entry, access-order position or cache file is created.
C20_RenderFailure ==
  [][\A p \in Procs :
       /\ (calls[p].pc = "convert" /\ calls'[p] # calls[p])
            => \/ calls'[p].pc = "exec" /\ calls[p].cacheKey \in DOMAIN temp.mmd
               \/ Rejects(p)
       /\ (calls[p].pc = "exec" /\ calls'[p] # calls[p])
            => \/ calls'[p].pc = "read" /\ calls[p].cacheKey \in DOMAIN temp'.png
               \/ Rejects(p)
       /\ (calls[p].pc = "read" /\ calls'[p] # calls[p])
            => \/ calls'[p].pc = "store" /\ calls[p].cacheKey \in DOMAIN temp.png
               \/ Rejects(p)
       /\ (calls'[p].status = 500 /\ calls[p].status # 500)
            => calls[p].pc \in {"convert", "exec", "read"} /\ CacheUnchanged]_vars

\* a call whose command failed was answered 500 and its fingerprint is
\* neither indexed nor on disk
C20_Witness ==
  \E p \in Procs :
    /\ calls[p].pc = "done" /\ calls[p].status = 500 /\ calls[p].fault
    /\ calls[p].cacheKey \notin DOMAIN items
    /\ calls[p].cacheKey \notin DOMAIN files
    /\ calls[p].cacheKey \notin InOrder(accessOrder)

---------------------------------------------------------------------------
(* CacheHelper under concurrent callers.  Every await of isCached,         *)
(* getCachedItem, cacheItem and of the constructor's initializeCache is a  *)
(* step of its own, so that the other calls run between them; every file   *)
(* operation can fail.  A call that leaves through a catch block (or       *)
(* through `.catch`) returns, a throw outside of them would reject.        *)

\* calls that one caller makes, one after the other
MaxOps == 1

\* the directory at construction: empty; an expired and a new file; more
\* files than maxCacheSize
ConcDirs ==
  {EmptyMap,
   [h \in {"h1", "h2"} |-> [bytes |-> <<"png", 1>>,
                            mtime |-> IF h = "h1" THEN 0 ELSE InitNow]],
   [h \in Keys |-> [bytes |-> <<"png", 1>>, mtime |-> InitNow]]}

\* a caller between two calls
NoCall == [pc |-> "idle", op |-> "none", key |-> "", timestamp |-> 0,
           oldestHash |-> "", failed |-> FALSE, result |-> "none",
           buffer |-> NoBytes, left |-> MaxOps]

\* what a file holds between the open of fs.writeFile, which truncates it,
\* and the end of the write
Truncated == <<"png", 0>>

\* the call returns result to its caller
Return(call, result) == [call EXCEPT !.pc = "returned", !.result = result]

\* isCached answers: the answer of a has call; for getCachedItem, null on
\* false and the try block on true
Answer(call, ret) ==
  IF call.op = "has" THEN Return(call, IF ret THEN "true" ELSE "false")
  ELSE IF ret THEN [call EXCEPT !.pc = "getTry"]
  ELSE Return(call, "null")

\* the index without hash
Dropped(c, hash) ==
  [c EXCEPT !.items = Without(c.items, hash),
            !.accessOrder = FilterOut(c.accessOrder, hash)]

\* the cache state of the next state
SetCache(c) ==
  /\ items' = c.items
  /\ accessOrder' = c.accessOrder
  /\ files' = c.files

InitConc ==
  /\ items = EmptyMap /\ accessOrder = <<>>
  /\ files \in ConcDirs
  /\ now = InitNow /\ phase = "init" /\ clean = TRUE /\ lastOp = NoOp
  /\ fp = [pc |-> "mkdir", files |-> <<>>, expiredHashes |-> {}, hash |-> "",
           dir |-> DOMAIN files]
  /\ calls = [p \in Procs |-> NoCall]
  /\ temp = NoTemp

concUnchanged == UNCHANGED <<now, phase, clean, lastOp, temp>>

\* a caller calls isCached, getCachedItem or cacheItem: the code up to the
\* first await
Call(p) ==
  /\ calls[p].pc \in {"idle", "returned"}
  /\ calls[p].left > 0
  /\ \E op \in {"has", "get", "put"}, hash \in Keys :
       LET call == [NoCall EXCEPT !.op = op, !.key = hash, !.left = calls[p].left - 1]
       IN calls' = [calls EXCEPT ![p] =
            IF op = "put" THEN [call EXCEPT !.pc = "mkdir"]
            ELSE IF hash \notin DOMAIN items THEN Answer(call, FALSE)
            ELSE [call EXCEPT !.pc = "access", !.timestamp = items[hash]]]
  /\ UNCHANGED <<items, accessOrder, files, fp>>
  /\ concUnchanged

\* isCached after `await fs.access(filePath)`: the catch block, the expired
\* branch up to its unlink, or `return true`
isCachedAccess(p) ==
  /\ calls[p].pc = "access"
  /\ \E accessOk \in BOOLEAN :
       LET call == calls[p]
       IN IF ~(accessOk /\ call.key \in DOMAIN files)
          THEN /\ SetCache(Dropped(Cache, call.key))
               /\ calls' = [calls EXCEPT ![p] = Answer([call EXCEPT !.failed = TRUE], FALSE)]
          ELSE IF Expired(call.timestamp, now)
          THEN /\ SetCache(Dropped(Cache, call.key))
               /\ calls' = [calls EXCEPT ![p].pc = "unlinkExpired"]
          ELSE /\ UNCHANGED <<items, accessOrder, files>>
               /\ calls' = [calls EXCEPT ![p] = Answer(call, TRUE)]
  /\ UNCHANGED fp
  /\ concUnchanged

\* isCached after `await fs.unlink(filePath).catch(() => {})`
isCachedUnlink(p) ==
  /\ calls[p].pc = "unlinkExpired"
  /\ \E unlinkOk \in BOOLEAN :
       /\ files' = IF UnlinkResolves(Cache, calls[p].key, unlinkOk)
                   THEN Without(files, calls[p].key) ELSE files
       /\ calls' = [calls EXCEPT ![p] = Answer(calls[p], FALSE)]
  /\ UNCHANGED <<items, accessOrder, fp>>
  /\ concUnchanged

\* getCachedItem, the try block up to `await fs.readFile(filePath)`: the
\* destructuring of an entry that is gone throws inside the try
getCachedItemTry(p) ==
  /\ calls[p].pc = "getTry"
  /\ IF calls[p].key \notin DOMAIN items
     THEN /\ calls' = [calls EXCEPT ![p] = Return([@ EXCEPT !.failed = TRUE], "null")]
          /\ UNCHANGED <<items, accessOrder, files>>
     ELSE /\ SetCache(updateAccessTime(Cache, calls[p].key, now))
          /\ calls' = [calls EXCEPT ![p].pc = "readFile"]
  /\ UNCHANGED fp
  /\ concUnchanged

\* getCachedItem with readFile outside of the try block
getCachedItemReadUnguarded(p) ==
  /\ calls[p].pc = "readFile"
  /\ \E readOk \in BOOLEAN :
       calls' = [calls EXCEPT ![p] =
                   IF readOk /\ calls[p].key \in DOMAIN files
                   THEN Return([@ EXCEPT !.buffer = files[calls[p].key].bytes], "buffer")
                   ELSE [@ EXCEPT !.pc = "rejected", !.failed = TRUE]]
  /\ UNCHANGED <<items, accessOrder, files, fp>>
  /\ concUnchanged

\* getCachedItem after `await fs.readFile(filePath)`: the buffer, or null
\* from the catch block
getCachedItemRead(p) ==
  /\ calls[p].pc = "readFile"
  /\ \E readOk \in BOOLEAN :
       calls' = [calls EXCEPT ![p] =
                   IF readOk /\ calls[p].key \in DOMAIN files
                   THEN Return([@ EXCEPT !.buffer = files[calls[p].key].bytes], "buffer")
                   ELSE Return([@ EXCEPT !.failed = TRUE], "null")]
  /\ UNCHANGED <<items, accessOrder, files, fp>>
  /\ concUnchanged

\* cacheItem after `await this.ensureCacheDirExists()`: a failing mkdir is
\* caught there and cacheItem goes on
cacheItemMkdir(p) ==
  /\ calls[p].pc = "mkdir"
  /\ calls' = [calls EXCEPT ![p].pc = "open"]
  /\ UNCHANGED <<items, accessOrder, files, fp>>
  /\ concUnchanged

\* fs.writeFile(filePath, buffer) opens the file for writing: the file is
\* created or emptied, under its final name; or the open fails and the
\* catch block returns false
cacheItemOpen(p) ==
  /\ calls[p].pc = "open"
  /\ \E openOk \in BOOLEAN :
       IF openOk
       THEN /\ files' = With(files, calls[p].key, [bytes |-> Truncated, mtime |-> now])
            /\ calls' = [calls EXCEPT ![p].pc = "writeFile"]
       ELSE /\ files' = files
            /\ calls' = [calls EXCEPT ![p] = Return([@ EXCEPT !.failed = TRUE], "false")]
  /\ UNCHANGED <<items, accessOrder, fp>>
  /\ concUnchanged

\* fs.writeFile(filePath, buffer) settles: the buffer is in the file (if
\* the file is still there), or the write failed, the file stays as it is
\* and the catch block returns false
cacheItemWrite(p) ==
  /\ calls[p].pc = "writeFile"
  /\ \E writeOk \in BOOLEAN, buffer \in Bytes :
       IF writeOk
       THEN /\ files' = IF calls[p].key \in DOMAIN files
                        THEN With(files, calls[p].key, [bytes |-> buffer, mtime |-> now])
                        ELSE files
            /\ calls' = [calls EXCEPT ![p].pc = "index"]
       ELSE /\ files' = files
            /\ calls' = [calls EXCEPT ![p] = Return([@ EXCEPT !.failed = TRUE], "false")]
  /\ UNCHANGED <<items, accessOrder, fp>>
  /\ concUnchanged

\* cacheItem after the write: items.set, accessOrder.push, and
\* removeOldestCacheItem up to its unlink when the index is too large
cacheItemIndex(p) ==
  /\ calls[p].pc = "index"
  /\ LET hash == calls[p].key
         set == With(items, hash, now)
         pushed == Append(accessOrder, hash)
     IN /\ items' = set
        /\ files' = files
        /\ IF Cardinality(DOMAIN set) > MaxCacheSize
           THEN /\ accessOrder' = Tail(pushed)
                /\ calls' = [calls EXCEPT ![p] =
                               IF Head(pushed) \in DOMAIN set
                               THEN [@ EXCEPT !.pc = "unlinkOldest",
                                              !.oldestHash = Head(pushed)]
                               ELSE Return(@, "true")]
           ELSE /\ accessOrder' = pushed
                /\ calls' = [calls EXCEPT ![p] = Return(@, "true")]
  /\ UNCHANGED fp
  /\ concUnchanged

\* removeOldestCacheItem, `await fs.unlink(filePath)` settles: the file is
\* gone, or the catch block and cacheItem returns true
cacheItemUnlink(p) ==
  /\ calls[p].pc = "unlinkOldest"
  /\ \E unlinkOk \in BOOLEAN :
       IF UnlinkResolves(Cache, calls[p].oldestHash, unlinkOk)
       THEN /\ files' = Without(files, calls[p].oldestHash)
            /\ calls' = [calls EXCEPT ![p].pc = "deleteOldest"]
       ELSE /\ files' = files
            /\ calls' = [calls EXCEPT ![p] = Return(@, "true")]
  /\ UNCHANGED <<items, accessOrder, fp>>
  /\ concUnchanged

\* removeOldestCacheItem after the unlink: items.delete(oldestHash);
\* cacheItem returns true
cacheItemDelete(p) ==
  /\ calls[p].pc = "deleteOldest"
  /\ items' = Without(items, calls[p].oldestHash)
  /\ calls' = [calls EXCEPT ![p] = Return(@, "true")]
  /\ UNCHANGED <<accessOrder, files, fp>>
  /\ concUnchanged

\* initializeCache after `await this.ensureCacheDirExists()`, and
\* loadCacheIndex after `await fs.readdir(cacheDir)`: the files to stat, or
\* the catch block that resets the index
initReaddir ==
  /\ fp.pc = "mkdir"
  /\ \E readdirOk \in BOOLEAN :
       IF readdirOk
       THEN /\ \E listing \in Listings(DOMAIN files) :
                 fp' = [fp EXCEPT !.pc = "stat", !.files = listing]
            /\ UNCHANGED <<items, accessOrder>>
       ELSE /\ fp' = [fp EXCEPT !.pc = "clean"]
            /\ items' = EmptyMap
            /\ accessOrder' = <<>>
  /\ UNCHANGED <<files, calls>>
  /\ concUnchanged

\* loadCacheIndex after `await fs.stat(filePath)` of the next file: the
\* entry is set and pushed, or the inner catch block skips the file
initStat ==
  /\ fp.pc = "stat"
  /\ fp.files # <<>>
  /\ \E statOk \in BOOLEAN :
       LET hash == Head(fp.files)
       IN IF statOk /\ hash \in DOMAIN files
          THEN /\ items' = With(items, hash, files[hash].mtime)
               /\ accessOrder' = Append(accessOrder, hash)
          ELSE UNCHANGED <<items, accessOrder>>
  /\ fp' = [fp EXCEPT !.files = Tail(@)]
  /\ UNCHANGED <<files, calls>>
  /\ concUnchanged

\* cleanExpiredCache, the first loop: the expired hashes of the index
initExpired ==
  /\ \/ fp.pc = "stat" /\ fp.files = <<>>
     \/ fp.pc = "clean"
  /\ fp' = [fp EXCEPT !.pc = "unlinkExpired",
                      !.expiredHashes = {h \in DOMAIN items : Expired(items[h], now)}]
  /\ UNCHANGED <<items, accessOrder, files, calls>>
  /\ concUnchanged

\* cleanExpiredCache, the second loop, `await fs.unlink(filePath)` of one
\* expired hash settles: the file is gone, or the catch block (the unlink
\* rejected, or the entry was gone from the index already)
initUnlink ==
  /\ fp.pc = "unlinkExpired"
  /\ \E hash \in fp.expiredHashes, unlinkOk \in BOOLEAN :
       IF hash \in DOMAIN items /\ UnlinkResolves(Cache, hash, unlinkOk)
       THEN /\ files' = Without(files, hash)
            /\ fp' = [fp EXCEPT !.pc = "deleteExpired", !.hash = hash]
       ELSE /\ files' = files
            /\ fp' = [fp EXCEPT !.expiredHashes = @ \ {hash}]
  /\ UNCHANGED <<items, accessOrder, calls>>
  /\ concUnchanged

\* cleanExpiredCache, the second loop after the unlink: items.delete(hash)
\* and accessOrder.filter
initDelete ==
  /\ fp.pc = "deleteExpired"
  /\ SetCache(Dropped(Cache, fp.hash))
  /\ fp' = [fp EXCEPT !.pc = "unlinkExpired", !.expiredHashes = @ \ {fp.hash}]
  /\ UNCHANGED calls
  /\ concUnchanged

\* cleanExpiredCache, the loop while (items.size > maxCacheSize): the call
\* of removeOldestCacheItem up to its unlink (the shift; nothing at all with
\* accessOrder empty), or the end of initializeCache
initSweep ==
  /\ fp.pc = "unlinkExpired"
  /\ fp.expiredHashes = {}
  /\ IF Cardinality(DOMAIN items) <= MaxCacheSize
     THEN /\ fp' = [fp EXCEPT !.pc = "initialized"]
          /\ accessOrder' = accessOrder
     ELSE IF accessOrder = <<>>
     THEN /\ fp' = fp
          /\ accessOrder' = accessOrder
     ELSE /\ accessOrder' = Tail(accessOrder)
          /\ fp' = IF Head(accessOrder) \in DOMAIN items
                    THEN [fp EXCEPT !.pc = "unlinkOldest", !.hash = Head(accessOrder)]
                    ELSE fp
  /\ UNCHANGED <<items, files, calls>>
  /\ concUnchanged

\* removeOldestCacheItem of the sweep, `await fs.unlink(filePath)` settles:
\* the file is gone, or the catch block and the loop goes on
initSweepUnlink ==
  /\ fp.pc = "unlinkOldest"
  /\ \E unlinkOk \in BOOLEAN :
       IF UnlinkResolves(Cache, fp.hash, unlinkOk)
       THEN /\ files' = Without(files, fp.hash)
            /\ fp' = [fp EXCEPT !.pc = "deleteOldest"]
       ELSE /\ files' = files
            /\ fp' = [fp EXCEPT !.pc = "unlinkExpired"]
  /\ UNCHANGED <<items, accessOrder, calls>>
  /\ concUnchanged

\* removeOldestCacheItem of the sweep after the unlink: items.delete, and
\* the loop goes on
initSweepDelete ==
  /\ fp.pc = "deleteOldest"
  /\ items' = Without(items, fp.hash)
  /\ fp' = [fp EXCEPT !.pc = "unlinkExpired"]
  /\ UNCHANGED <<accessOrder, files, calls>>
  /\ concUnchanged

NextConc ==
  \/ initReaddir
  \/ initStat
  \/ initExpired
  \/ initUnlink
  \/ initDelete
  \/ initSweep
  \/ initSweepUnlink
  \/ initSweepDelete
  \/ \E p \in Procs :
       \/ Call(p)
       \/ isCachedAccess(p)
       \/ isCachedUnlink(p)
       \/ getCachedItemTry(p)
       \/ getCachedItemRead(p)
       \/ cacheItemMkdir(p)
       \/ cacheItemOpen(p)
       \/ cacheItemWrite(p)
       \/ cacheItemIndex(p)
       \/ cacheItemUnlink(p)
       \/ cacheItemDelete(p)

SpecConc == InitConc /\ [][NextConc]_vars

\* C11. No rejection: no call of isCached, getCachedItem or cacheItem and
\* no initializeCache of the constructor ever rejects, whatever file
\* operation fails and however the calls interleave; a get that met a
\* failure has returned null and a put whose write failed has returned
\* false.
C11_NeverRejects ==
  /\ fp.pc # "rejected"
  /\ \A p \in Procs :
       /\ calls[p].pc # "rejected"
       /\ (calls[p].pc = "returned" /\ calls[p].failed)
            => /\ calls[p].op = "get" => calls[p].result = "null"
               /\ calls[p].op = "put" => calls[p].result = "false"
               /\ calls[p].op = "has" => calls[p].result = "false"

\* a get whose readFile failed has returned null while a put whose
\* writeFile failed has returned false
C11_Witness ==
  \E p, q \in Procs :
    /\ calls[p].pc = "returned" /\ calls[p].op = "get"
    /\ calls[p].failed /\ calls[p].result = "null"
    /\ calls[q].pc = "returned" /\ calls[q].op = "put"
    /\ calls[q].failed /\ calls[q].result = "false"

\* C21. No partial read: in every interleaving of getCachedItem with
\* cacheItem, a get that returns bytes returns the complete bytes of a
\* finished write, never the content of a file whose write is in progress.
C21_NoPartialRead ==
  \A p \in Procs :
    (calls[p].pc = "returned" /\ calls[p].op = "get" /\ calls[p].result = "buffer")
      => calls[p].buffer # Truncated

---------------------------------------------------------------------------
(* Further claims on initializeCache, checked under SpecInit *)

\* C22. Termination of initialization: for every directory content and
\* every pattern of failing file deletes the capacity sweep of
\* cleanExpiredCache finishes, so that initializeCache completes (it does not
\* end in the loop that can no longer leave).
C22_InitCompletes ==
  fp.pc = "initialized" => phase = "ready"

---------------------------------------------------------------------------
(* Further claims on the cache, checked under Spec: every call of Spec is *)
(* awaited, so no cache operation is in flight in any state of it         *)

\* C23. Index consistency: whenever no cache operation is in flight,
\* accessOrder holds each key of items exactly once and no other key.
C23_IndexConsistency ==
  phase = "ready"
    => /\ InOrder(accessOrder) = DOMAIN items
       /\ \A h \in DOMAIN items : Positions(accessOrder, h) = 1

\* C25. Put is an idempotent overwrite: a cacheItem that returns true for a
\* key already indexed leaves the same set of indexed keys, the key at a
\* single position, the most-recently-used end of accessOrder, the other
\* positions as they were, and the key's timestamp refreshed.
C25_IdempotentPut ==
  [][(lastOp'.op = "put" /\ lastOp'.was /\ lastOp'.ok)
       => /\ DOMAIN items' = DOMAIN items
          /\ accessOrder' = Append(FilterOut(accessOrder, lastOp'.key), lastOp'.key)
          /\ items'[lastOp'.key] = now]_vars

\* C27. A get that returns null promotes nothing: a getCachedItem that
\* returns null leaves every remaining entry's timestamp and the order of
\* the remaining keys as they were (it can only drop its own key).
C27_NullGetNoPromotion ==
  [][(lastOp'.op = "get" /\ lastOp'.bytes = NoBytes)
       => /\ accessOrder' \in {accessOrder, FilterOut(accessOrder, lastOp'.key)}
          /\ \A h \in DOMAIN items' : h \in DOMAIN items /\ items'[h] = items[h]]_vars

\* C24. Delete ordering: on every eviction path the key leaves items before,
\* or together with, the deletion of its file: in no state has an evicting
\* operation deleted the file while the index still lists the key.
C24_DeleteOrdering ==
  /\ \A p \in Procs :
       (calls[p].pc = "deleteOldest" /\ calls[p].oldestHash \notin DOMAIN files)
         => calls[p].oldestHash \notin DOMAIN items
  /\ (fp.pc \in {"deleteExpired", "deleteOldest"} /\ fp.hash \notin DOMAIN files)
       => fp.hash \notin DOMAIN items

\* C26. A put that takes the store over capacity while some entry is past
\* its TTL evicts no entry that is not expired, as long as removing the
\* expired ones brings the store within maxCacheSize.
C26_ExpiredPurgedFirst ==
  [][(/\ lastOp'.op = "put" /\ lastOp'.ok /\ ~lastOp'.was
      /\ Cardinality(DOMAIN items) + 1 > MaxCacheSize
      /\ \E h \in DOMAIN items : Expired(items[h], now)
      /\ Cardinality({h \in DOMAIN items : ~Expired(items[h], now)}) + 1
           <= MaxCacheSize)
       => \A h \in DOMAIN items :
            ~Expired(items[h], now) => h \in DOMAIN items']_vars

---------------------------------------------------------------------------
(* Further claims on the service, checked under SpecService *)

\* C28. Concurrent calls of convertMermaidToImage for the same fingerprint
\* do not interfere through the temporary files they share: when both have
\* ended, both got as far as the mmdc command and the command failed for
\* neither, each has returned the image bytes.
C28_SharedTempFiles ==
  \A p \in Procs : \A q \in Procs \ {p} :
    (/\ calls[p].pc = "done" /\ calls[q].pc = "done"
     /\ calls[p].cacheKey # <<>>
     /\ calls[p].cacheKey = calls[q].cacheKey
     /\ calls[p].inputContent # <<>> /\ calls[q].inputContent # <<>>
     /\ ~calls[p].fault /\ ~calls[q].fault)
      => /\ calls[p].status = 200
         /\ calls[p].sent # NoBytes

---------------------------------------------------------------------------
(* Further claims on the calls that meet initializeCache, checked under
   SpecConc *)

\* the keys the callers have put
PutKeys == {calls[p].key : p \in {q \in Procs : calls[q].op = "put"}}

\* C29. Operations issued while initializeCache runs are neither lost nor
\* duplicated: once initialization has finished and no call is in flight,
\* every key whose put returned true is in items and holds exactly one
\* position of accessOrder, also when the directory listing failed.  The
\* keys of the directory and of the puts together fit the capacity, so that
\* no entry had to be evicted.
C29_InitKeepsPuts ==
  (/\ fp.pc = "initialized"
   /\ \A p \in Procs : calls[p].pc \in {"idle", "returned"}
   /\ Cardinality(fp.dir \cup PutKeys) <= MaxCacheSize)
    => \A p \in Procs :
         (calls[p].op = "put" /\ calls[p].result = "true")
           => /\ calls[p].key \in DOMAIN items
              /\ Positions(accessOrder, calls[p].key) = 1

---------------------------------------------------------------------------
(* Further claims on the planner, checked under SpecPlan *)

\* C30. For every text and every integer requested width and height, the
\* width and the height that calculateOptimalDimensions returns are
\* positive integers.
C30_IntegerDimensions ==
  fp.pc = "planned"
    => /\ fp.planned.width[2] = 1 /\ fp.planned.width[1] > 0
       /\ fp.planned.height[2] = 1 /\ fp.planned.height[1] > 0

=============================================================================
